---- MODULE Spec2Model ----
(***************************************************************************)
(* Model of shock_cooling_curve/models/sw_rsg.py: the SW_RSG model object  *)
(* (units, scale, display_name, initial, lower_bounds, upper_bounds,       *)
(* mcore) and its evaluator SW_RSG.luminosity(t, re, me, ve, kappa=0.34).  *)
(*                                                                         *)
(* Floating-point numbers are modelled in the logarithmic domain.  A       *)
(* double is a record [k, s, l]:                                           *)
(*   k = "fin"   a non-zero finite number of sign s and magnitude          *)
(*               exp(l / Scale)  (l is an integer number of 1/Scale        *)
(*               nepers),                                                  *)
(*   k = "zero"  0.0 (the sign of zero is not tracked),                    *)
(*   k = "inf"   the infinity of sign s,                                   *)
(*   k = "nan"   a NaN,                                                    *)
(*   k = "cplx"  a Python/numpy complex value (real floats never compare   *)
(*               equal to it; its parts are not tracked),                  *)
(*   k = "err"   the operation raised a Python exception.                  *)
(* Products, quotients and powers are exact up to one unit of l; a result  *)
(* whose magnitude leaves the range of an IEEE-754 double becomes inf or   *)
(* zero, as the hardware does.  Python float operators and numpy array     *)
(* operators differ on division by zero, on fractional powers of negative  *)
(* numbers and on overflow in a power, so each has its own operators,      *)
(* named Py... and Np... below.                                            *)
(***************************************************************************)
EXTENDS Integers, Sequences, FiniteSets, TLC

-----------------------------------------------------------------------------
(* Fixed-point logarithm and exponential *)

\* units of l per neper
Scale == 10000
\* internal precision of LnInt (units per 1)
LnPrec == 100000
\* internal precision of ExpFix (units per 1)
ExpPrec == 50000
\* ln(2) in 1/LnPrec units
Ln2 == 69315
\* ln(10) in 1/LnPrec units
Ln10 == 230259
\* largest l of a finite double: ln(1.7976931348623157e308) * Scale
LnMax == 7097827
\* smallest l that does not round to zero: ln(2^-1075) * Scale
LnMin == -7451332

Abs(x) == IF x < 0 THEN -x ELSE x

\* x * p / q rounded to nearest (q > 0)
MulDiv(x, p, q) == (2 * x * p + q) \div (2 * q)

\* a logarithm in 1/LnPrec units rounded to 1/Scale units
ToScale(x) == (x + (LnPrec \div Scale) \div 2) \div (LnPrec \div Scale)

RECURSIVE Pow2(_)
Pow2(n) == IF n = 0 THEN 1 ELSE 2 * Pow2(n - 1)

\* largest n with 2^n <= m  (m >= 1)
RECURSIVE Log2Floor(_)
Log2Floor(m) == IF m < 2 THEN 0 ELSE 1 + Log2Floor(m \div 2)

\* ln(m) in 1/LnPrec units, for an integer 1 <= m < 32768:
\* m = 2^n * x with 1 <= x < 2, ln x = 2 atanh z, z = (x - 1) / (x + 1)
LnInt(m) ==
    LET n  == Log2Floor(m)
        b  == Pow2(n)
        z  == ((m - b) * LnPrec) \div (m + b)
        z2 == (z * z) \div LnPrec
        z3 == (z * z2) \div LnPrec
        z5 == (z3 * z2) \div LnPrec
        z7 == (z5 * z2) \div LnPrec
        z9 == (z7 * z2) \div LnPrec
    IN  n * Ln2 + 2 * (z + z3 \div 3 + z5 \div 5 + z7 \div 7 + z9 \div 9)

\* exp(r) in 1/ExpPrec units for 0 <= r < ln 2, r in 1/ExpPrec units
RECURSIVE ExpSeries(_, _, _)
ExpSeries(r, term, i) ==
    IF term = 0 THEN 0
    ELSE term + ExpSeries(r, (term * r + (ExpPrec * i) \div 2) \div (ExpPrec * i), i + 1)

\* exp(a / Scale) in 1/ExpPrec units, for -20 * Scale <= a <= 7 * Scale
ExpFix(a) ==
    LET a5 == a * (LnPrec \div Scale)
        n  == a5 \div Ln2
        r  == (a5 - n * Ln2) \div (LnPrec \div ExpPrec)
        e  == ExpSeries(r, ExpPrec, 1)
    IN  IF n >= 0 THEN e * Pow2(n) ELSE e \div Pow2(-n)

-----------------------------------------------------------------------------
(* The double values *)

Fin(s, l) == [k |-> "fin", s |-> s, l |-> l]
Zero      == [k |-> "zero", s |-> 1, l |-> 0]
Inf(s)    == [k |-> "inf", s |-> s, l |-> 0]
NaN       == [k |-> "nan", s |-> 1, l |-> 0]
Cplx      == [k |-> "cplx", s |-> 1, l |-> 0]
Err       == [k |-> "err", s |-> 1, l |-> 0]
One       == Fin(1, 0)

\* rounding of a result of sign s and log-magnitude l to a double
Norm(s, l) == IF l > LnMax THEN Inf(s) ELSE IF l < LnMin THEN Zero ELSE Fin(s, l)

\* the double nearest to the decimal literal m * 10^e (m an integer)
Lit(m, e) ==
    IF m = 0 THEN Zero
    ELSE Norm(IF m < 0 THEN -1 ELSE 1,
              ToScale(LnInt(Abs(m)) + e * Ln10))

IsFinite(a)   == a.k \in {"fin", "zero"}
IsPositive(a) == (a.k = "fin" /\ a.s = 1) \/ (a.k = "inf" /\ a.s = 1)
IsNegative(a) == a.k \in {"fin", "inf"} /\ a.s = -1

\* a < b on real doubles (false when either is NaN, complex or an error)
Less(a, b) ==
    /\ a.k \in {"fin", "zero", "inf"} /\ b.k \in {"fin", "zero", "inf"}
    /\ LET rank(x) == IF x.k = "zero" THEN 0
                      ELSE IF x.k = "inf" THEN x.s * (LnMax - LnMin + 2)
                      ELSE x.s * (x.l - LnMin + 1)
       IN  rank(a) < rank(b)

Leq(a, b) == Less(a, b) \/ (a = b /\ a.k \in {"fin", "zero", "inf"})

-----------------------------------------------------------------------------
(* Arithmetic on doubles *)

\* a * b: the same for Python floats and numpy arrays (overflow gives inf)
Mul(a, b) ==
    IF a.k = "err" \/ b.k = "err" THEN Err
    ELSE IF a.k = "cplx" \/ b.k = "cplx" THEN Cplx
    ELSE IF a.k = "nan" \/ b.k = "nan" THEN NaN
    ELSE IF {a.k, b.k} = {"zero", "inf"} THEN NaN
    ELSE IF a.k = "zero" \/ b.k = "zero" THEN Zero
    ELSE IF a.k = "inf" \/ b.k = "inf" THEN Inf(a.s * b.s)
    ELSE Norm(a.s * b.s, a.l + b.l)

\* a / b elementwise on numpy arrays: x / 0 is an infinity (RuntimeWarning
\* only), 0 / 0 is NaN
NpDiv(a, b) ==
    IF a.k = "err" \/ b.k = "err" THEN Err
    ELSE IF a.k = "cplx" \/ b.k = "cplx" THEN Cplx
    ELSE IF a.k = "nan" \/ b.k = "nan" THEN NaN
    ELSE IF b.k = "zero" THEN (IF a.k = "zero" THEN NaN ELSE Inf(a.s))
    ELSE IF b.k = "inf" THEN (IF a.k = "inf" THEN NaN ELSE Zero)
    ELSE IF a.k = "zero" THEN Zero
    ELSE IF a.k = "inf" THEN Inf(a.s * b.s)
    ELSE Norm(a.s * b.s, a.l - b.l)

\* a / b on Python floats: a zero divisor raises ZeroDivisionError
PyDiv(a, b) ==
    IF a.k = "err" \/ b.k = "err" THEN Err
    ELSE IF b.k = "zero" THEN Err
    ELSE NpDiv(a, b)

\* ln(1 + exp(-d / Scale)) (sgn = 1) or ln(1 - exp(-d / Scale)) (sgn = -1),
\* in 1/Scale units, for d >= 0 (d >= 1 when sgn = -1)
LnOnePlusExp(d, sgn) ==
    IF d > 20 * Scale THEN 0
    ELSE LET u == ExpFix(-d) \div (ExpPrec \div 10000)
         IN  ToScale(LnInt(10000 + sgn * u) - LnInt(10000))

\* a + b on Python floats
PyAdd(a, b) ==
    IF a.k = "err" \/ b.k = "err" THEN Err
    ELSE IF a.k = "cplx" \/ b.k = "cplx" THEN Cplx
    ELSE IF a.k = "nan" \/ b.k = "nan" THEN NaN
    ELSE IF a.k = "inf" /\ b.k = "inf" THEN (IF a.s = b.s THEN a ELSE NaN)
    ELSE IF a.k = "inf" THEN a
    ELSE IF b.k = "inf" THEN b
    ELSE IF a.k = "zero" THEN b
    ELSE IF b.k = "zero" THEN a
    ELSE LET hi == IF a.l >= b.l THEN a ELSE b
             lo == IF a.l >= b.l THEN b ELSE a
             d  == Abs(a.l - b.l)
         IN  IF hi.s = lo.s THEN Norm(hi.s, hi.l + LnOnePlusExp(d, 1))
             ELSE IF d = 0 THEN Zero
             ELSE Norm(hi.s, hi.l + LnOnePlusExp(d, -1))

\* sign of x ** p for a negative x and an integer p
PowSign(p) == IF p % 2 = 0 THEN 1 ELSE -1

\* a ** (p / q) elementwise on numpy arrays (q > 0, p # 0): a fractional
\* power of a negative number is NaN, 0 ** negative is inf
NpPow(a, p, q) ==
    IF a.k = "err" THEN Err
    ELSE IF a.k = "cplx" THEN Cplx
    ELSE IF a.k = "nan" THEN NaN
    ELSE IF a.k = "zero" THEN (IF p > 0 THEN Zero ELSE Inf(1))
    ELSE IF a.k = "inf" THEN
        (IF p > 0 THEN Inf(IF a.s = -1 /\ q = 1 THEN PowSign(p) ELSE 1) ELSE Zero)
    ELSE IF a.s = -1 THEN
        (IF q = 1 THEN Norm(PowSign(p), a.l * p) ELSE NaN)
    ELSE Norm(1, MulDiv(a.l, p, q))

\* a ** (p / q) on Python floats (q > 0, p # 0): a fractional power of a
\* negative number is a complex number, 0 ** negative raises
\* ZeroDivisionError, an overflowing result raises OverflowError
PyPow(a, p, q) ==
    IF a.k = "err" THEN Err
    ELSE IF a.k = "zero" /\ p < 0 THEN Err
    ELSE IF a.k = "fin" /\ a.s = -1 /\ q # 1 THEN Cplx
    ELSE IF a.k = "fin" /\ NpPow(a, p, q).k = "inf" THEN Err
    ELSE NpPow(a, p, q)

\* -a
Neg(a) == IF a.k \in {"fin", "inf"} THEN [a EXCEPT !.s = -a.s] ELSE a

\* l of the largest magnitude whose exponential is computed by ExpFix:
\* beyond exp(ExpArgMax / Scale) > 745 the result is inf or zero
ExpArgMax == 67000

\* np.exp(a)
NpExp(a) ==
    IF a.k = "err" THEN Err
    ELSE IF a.k = "cplx" THEN Cplx
    ELSE IF a.k = "nan" THEN NaN
    ELSE IF a.k = "zero" THEN One
    ELSE IF a.k = "inf" THEN (IF a.s = 1 THEN Inf(1) ELSE Zero)
    ELSE IF a.l > ExpArgMax THEN (IF a.s = 1 THEN Inf(1) ELSE Zero)
    ELSE IF a.l < -20 * Scale THEN One
    ELSE Norm(1, a.s * ((ExpFix(a.l) + (ExpPrec \div Scale) \div 2)
                            \div (ExpPrec \div Scale)))

-----------------------------------------------------------------------------
(* SW_RSG.luminosity, line by line.  Scalars (re, me, ve, kappa, mcore and *)
(* what is computed from them alone) are Python floats; t and everything   *)
(* computed from t are numpy arrays, modelled as sequences of doubles.     *)

\* a default opacity that is not the reference value of line 46
DefaultKappaOff == Lit(4, -1)
\* the default value of the parameter kappa
DefaultKappa == Lit(34, -2)
\* np.pi
pi == Lit(31416, -4)
\* utils.sigma, the Stefan-Boltzmann constant (erg cm^-2 s^-1 K^-4)
sigma == Lit(5670, -8)
\* utils.rsun, the solar radius (cm)
rsun == Lit(6957, 7)

\* the literals of the body
c0_34  == Lit(34, -2)
c1e9   == Lit(1, 9)
c10    == Lit(10, 0)
c1_67  == Lit(167, -2)
c19_5  == Lit(195, -1)
c1_88  == Lit(188, -2)
c1e42  == Lit(1, 42)
c2_05  == Lit(205, -2)
c1e4   == Lit(1, 4)
c4     == Lit(4, 0)
\* 10 ** 8.5
c10p8_5 == PyPow(c10, 85, 10)
\* 1.88 * 1e42
c1_88e42 == Mul(c1_88, c1e42)
\* 2.05 * 1e4
c2_05e4 == Mul(c2_05, c1e4)
\* 4. * np.pi
c4pi == Mul(c4, pi)

\* M = self.mcore + me
Line45(mcore, me) == PyAdd(mcore, me)
\* k = kappa / 0.34
Line46(kappa) == PyDiv(kappa, c0_34)
\* fp = (me / self.mcore) ** 0.5
Line47(me, mcore) == PyPow(PyDiv(me, mcore), 1, 2)
\* vs = (ve * 1e9) / (10 ** 8.5)
Line48(ve) == PyDiv(Mul(ve, c1e9), c10p8_5)
\* lterm1 = ((vs * t ** 2) / (fp * M * k)) ** (-0.086)
Line52(vs, t, fp, M, k) ==
    LET d == Mul(Mul(fp, M), k)
    IN  [i \in 1..Len(t) |-> NpPow(NpDiv(Mul(vs, NpPow(t[i], 2, 1)), d), -86, 1000)]
\* lterm2 multiplied by k instead of divided
Line53TimesK(vs, re, k) == Mul(Mul(PyPow(vs, 2, 1), re), k)
\* lterm2 = ((vs ** 2) * re) / k
Line53(vs, re, k) == PyDiv(Mul(PyPow(vs, 2, 1), re), k)
\* num = 1.67 * t
Line55(t) == [i \in 1..Len(t) |-> Mul(c1_67, t[i])]
\* den = 19.5 * (k * me * (1 / vs)) ** (1 / 2)
Line56(k, me, vs) == Mul(c19_5, PyPow(Mul(Mul(k, me), PyDiv(One, vs)), 1, 2))
\* lterm3 with the exponent 8 for 0.8
Line57Pow8(num, den) ==
    [i \in 1..Len(num) |-> NpExp(Neg(NpPow(NpDiv(num[i], den), 8, 1)))]
\* lterm3 = np.exp(- ((num / den) ** 0.8))
Line57(num, den) ==
    [i \in 1..Len(num) |-> NpExp(Neg(NpPow(NpDiv(num[i], den), 8, 10)))]
\* L = 1.88 * 1e42 * lterm1 * lterm2 * lterm3
Line58(lterm1, lterm2, lterm3) ==
    [i \in 1..Len(lterm1) |-> Mul(Mul(Mul(c1_88e42, lterm1[i]), lterm2), lterm3[i])]
\* tterm1 = (((vs * t) ** 2) / (fp * M * k)) ** 0.027
Line60(vs, t, fp, M, k) ==
    LET d == Mul(Mul(fp, M), k)
    IN  [i \in 1..Len(t) |-> NpPow(NpDiv(NpPow(Mul(vs, t[i]), 2, 1), d), 27, 1000)]
\* tterm2 with t clamped from below: np.maximum(t, 1e-10) ** (-0.5)
Line61Clamped(re, k, t) ==
    LET c == PyPow(PyDiv(re, k), 1, 4)
        floor == Lit(1, -10)
    IN  [i \in 1..Len(t) |->
            Mul(c, NpPow(IF Less(t[i], floor) THEN floor ELSE t[i], -1, 2))]
\* tterm2 = ((re / k) ** 0.25) * t ** (-0.5)
Line61(re, k, t) ==
    LET c == PyPow(PyDiv(re, k), 1, 4)
    IN  [i \in 1..Len(t) |-> Mul(c, NpPow(t[i], -1, 2))]
\* T = 2.05 * 1e4 * tterm1 * tterm2
Line63(tterm1, tterm2) ==
    [i \in 1..Len(tterm1) |-> Mul(Mul(c2_05e4, tterm1[i]), tterm2[i])]
\* R with T ** 3 for T ** 4
Line65Cube(L, T) ==
    [i \in 1..Len(L) |->
        NpPow(NpDiv(L[i], Mul(Mul(c4pi, NpPow(T[i], 3, 1)), sigma)), 1, 2)]
\* R = (L / (4. * np.pi * (T ** 4.) * utils.sigma)) ** 0.5
Line65(L, T) ==
    [i \in 1..Len(L) |->
        NpPow(NpDiv(L[i], Mul(Mul(c4pi, NpPow(T[i], 4, 1)), sigma)), 1, 2)]

\* a parameter left out of the call
Omitted == [k |-> "omitted", s |-> 1, l |-> 0]
\* binding of the parameter kappa=0.34 (line 30)
BindKappa(kappa) == IF kappa = Omitted THEN DefaultKappa ELSE kappa

\* no element of the array is the mark of a raised exception
NoErr(arr) == \A i \in 1..Len(arr) : arr[i].k # "err"

\* the frame of a call before its first line: the parameters are bound, the
\* other locals are not (Err for a scalar, <<>> for an array)
NoFrame == [t |-> <<>>, re |-> Err, me |-> Err, ve |-> Err, kappa |-> Err,
            M |-> Err, k |-> Err, fp |-> Err, vs |-> Err, lterm1 |-> <<>>,
            lterm2 |-> Err, num |-> <<>>, den |-> Err, lterm3 |-> <<>>,
            L |-> <<>>, tterm1 |-> <<>>, tterm2 |-> <<>>, T |-> <<>>, R |-> <<>>,
            raised |-> FALSE]
Frame0(t, re, me, ve, kappa) ==
    [NoFrame EXCEPT !.t = t, !.re = re, !.me = me, !.ve = ve,
                    !.kappa = BindKappa(kappa)]

\* a line assigns the scalar v to the local name, or raises; nothing runs
\* after a raise
AssignS(f, name, v) ==
    IF f.raised THEN f
    ELSE IF v.k = "err" THEN [f EXCEPT !.raised = TRUE]
    ELSE [f EXCEPT ![name] = v]
\* a line assigns the array v to the local name, or raises
AssignA(f, name, v) ==
    IF f.raised THEN f
    ELSE IF ~NoErr(v) THEN [f EXCEPT !.raised = TRUE]
    ELSE [f EXCEPT ![name] = v]

\* the frame f after each line of the body, self.mcore being mcore
Exec45(f, mcore) == AssignS(f, "M", Line45(mcore, f.me))
Exec46(f) == AssignS(f, "k", Line46(f.kappa))
Exec47(f, mcore) == AssignS(f, "fp", Line47(f.me, mcore))
Exec48(f) == AssignS(f, "vs", Line48(f.ve))
Exec52(f) == AssignA(f, "lterm1", Line52(f.vs, f.t, f.fp, f.M, f.k))
Exec53(f) == AssignS(f, "lterm2", Line53(f.vs, f.re, f.k))
Exec55(f) == AssignA(f, "num", Line55(f.t))
Exec56(f) == AssignS(f, "den", Line56(f.k, f.me, f.vs))
Exec57(f) == AssignA(f, "lterm3", Line57(f.num, f.den))
Exec58(f) == AssignA(f, "L", Line58(f.lterm1, f.lterm2, f.lterm3))
Exec60(f) == AssignA(f, "tterm1", Line60(f.vs, f.t, f.fp, f.M, f.k))
Exec61(f) == AssignA(f, "tterm2", Line61(f.re, f.k, f.t))
Exec63(f) == AssignA(f, "T", Line63(f.tterm1, f.tterm2))
Exec65(f) == AssignA(f, "R", Line65(f.L, f.T))

\* the local variables at the end of one execution of the body of
\* luminosity, lines 45-65, for self.mcore = mcore
Locals(mcore, t, re, me, ve, kappa) ==
    Exec65(Exec63(Exec61(Exec60(Exec58(Exec57(Exec56(Exec55(Exec53(Exec52(
        Exec48(Exec47(Exec46(Exec45(Frame0(t, re, me, ve, kappa), mcore)),
                      mcore))))))))))))

-----------------------------------------------------------------------------
(* Bounds and input grids *)

\* longest time array of a call
MaxLen == 2
\* number of workers calling luminosity concurrently
NumWorkers == 2

\* core masses the base-class constructor may read from the configuration
McoreSet == {Lit(1, -1), Lit(1, 0), Lit(1, 2)}

\* observation times: 0, 0.001, 1, 100 and 1000 days
TimeValues == {Lit(0, 0), Lit(1, -3), Lit(1, 0), Lit(1, 2), Lit(1, 3)}
RECURSIVE SeqsUpTo(_, _)
SeqsUpTo(S, n) ==
    IF n = 0 THEN {<<>>}
    ELSE LET shorter == SeqsUpTo(S, n - 1)
         IN  shorter \cup {Append(q, x) : q \in {r \in shorter : Len(r) = n - 1}, x \in S}
TimeArrays == SeqsUpTo(TimeValues, MaxLen) \ {<<>>}

\* candidate parameters: the corners and the initial guess of the class's
\* own box, and non-positive values
ReSet    == {Lit(0, 0), Lit(1, -2), Lit(2, 0), Lit(1, 1)}
MeSet    == {Lit(-5, -1), Lit(0, 0), Lit(1, -2), Lit(5, -1), Lit(1, 1)}
VeSet    == {Lit(-1, 0), Lit(0, 0), Lit(1, -2), Lit(2, 0), Lit(1, 1)}
KappaSet == {Lit(0, 0), Lit(34, -3), Lit(34, -2), Lit(34, -1), Omitted}

\* the calls compared pairwise: valid parameters, early and late times,
\* opacities around the reference value
PairTimeArrays == {<<Lit(1, 0)>>, <<Lit(1, 1)>>, <<Lit(3, 1)>>, <<Lit(1, 0), Lit(3, 1)>>}
PairReSet      == {Lit(2, 0)}
PairMeSet      == {Lit(1, -2), Lit(5, -1)}
PairVeSet      == {Lit(2, 0), Lit(1, 1)}
PairKappaSet   == {Lit(2, -1), Lit(34, -2), Lit(5, -1), Omitted}

\* the calls the concurrent workers make: <<t, re, me, ve, kappa>>
WorkerCalls ==
    { <<(<<Lit(1, 0)>>), Lit(2, 0), Lit(5, -1), Lit(2, 0), Omitted>>,
      <<(<<Lit(0, 0), Lit(1, 1)>>), Lit(1, 1), Lit(1, -2), Lit(1, 1), Lit(5, -1)>>,
      <<(<<Lit(1, 2)>>), Lit(2, 0), Lit(5, -1), Lit(0, 0), Lit(34, -2)>> }
Workers == 1..NumWorkers

-----------------------------------------------------------------------------
(* The model object and the calls *)

VARIABLES
    self,   \* the attributes of the constructed SW_RSG object
    call,   \* the arguments of the call in progress or just finished
    frame,  \* the local variables of that call
    ret,    \* its outcome: the returned pair, or the raised exception
    prev,   \* the call, locals and outcome of the call before it
    wk      \* per worker: position in luminosity, arguments, locals, outcome

vars == <<self, call, frame, ret, prev, wk>>

ParamOrder == <<"re", "me", "ve", "off">>
\* the per-call parameters of luminosity besides the time array
LuminosityParams == {"re", "me", "ve", "kappa"}

\* a units table without the entry for off
unitsNoOff == [re |-> "R_sun", me |-> "M_sun", ve |-> "1e9 cm/s"]
\* self.units
units == [re |-> "R_sun", me |-> "M_sun", ve |-> "1e9 cm/s", off |-> "days"]
\* self.scale
scale == [re |-> PyDiv(Lit(1, 13), rsun), me |-> Lit(1, 0), ve |-> Lit(1, 0),
          off |-> Lit(1, 0)]
\* self.display_name
display_name == "Sapir & Waxman (2017) [n = 1.5]"
\* an initial guess for re above its upper bound
initialAbove == <<Lit(2, 1), Lit(5, -1), Lit(2, 0), Lit(1, -2)>>
\* self.initial
initial == <<Lit(2, 0), Lit(5, -1), Lit(2, 0), Lit(1, -2)>>
\* self.lower_bounds
lower_bounds == <<Lit(1, -2), Lit(1, -2), Lit(1, -2), Lit(1, -3)>>
\* self.upper_bounds
upper_bounds == <<Lit(1, 1), Lit(1, 1), Lit(1, 1), Lit(5, -1)>>

\* the object SW_RSG.__init__ leaves behind, super().__init__ having set mcore
Constructed(mcore) ==
    [units |-> units, scale |-> scale, display_name |-> display_name,
     initial |-> initial, lower_bounds |-> lower_bounds,
     upper_bounds |-> upper_bounds, mcore |-> mcore]

NoCall  == [t |-> <<>>, re |-> Zero, me |-> Zero, ve |-> Zero, kappa |-> Omitted]
NoRet   == [status |-> "none", R |-> <<>>, T |-> <<>>]
NoPrev  == [call |-> NoCall, frame |-> NoFrame, ret |-> NoRet]
IdleWorker == [pc |-> "idle", call |-> NoCall, loc |-> NoFrame, ret |-> NoRet]

\* outcome of a call whose locals are f: line 67 returns the pair of
\* single-row arrays np.array([R]), np.array([T]); an exception leaves
\* nothing
Outcome(f) ==
    IF f.raised THEN [status |-> "raised", R |-> <<>>, T |-> <<>>]
    ELSE [status |-> "returned", R |-> <<f.R>>, T |-> <<f.T>>]

Init ==
    /\ \E m \in McoreSet : self = Constructed(m)
    /\ call = NoCall
    /\ frame = NoFrame
    /\ ret = NoRet
    /\ prev = NoPrev
    /\ wk = [w \in Workers |-> IdleWorker]

\* a call that keeps M on the object, as self.mcore
LuminosityStoresM(t, re, me, ve, kappa) ==
    /\ ret.status = "none"
    /\ call' = [t |-> t, re |-> re, me |-> me, ve |-> ve, kappa |-> kappa]
    /\ frame' = Locals(self.mcore, t, re, me, ve, BindKappa(kappa))
    /\ ret' = Outcome(frame')
    /\ self' = [self EXCEPT !.mcore = frame'.M]

\* one whole call self.luminosity(t, re, me, ve, kappa)
Luminosity(t, re, me, ve, kappa) ==
    /\ ret.status = "none"
    /\ call' = [t |-> t, re |-> re, me |-> me, ve |-> ve, kappa |-> kappa]
    /\ frame' = Locals(self.mcore, t, re, me, ve, BindKappa(kappa))
    /\ ret' = Outcome(frame')
    /\ UNCHANGED self

\* the caller drops the outcome; the frame of the call is gone
Discard ==
    /\ ret.status # "none"
    /\ call' = NoCall /\ frame' = NoFrame /\ ret' = NoRet
    /\ UNCHANGED <<self, prev, wk>>

\* the caller keeps the outcome to compare it with the next call's
Keep ==
    /\ ret.status # "none"
    /\ prev' = [call |-> call, frame |-> frame, ret |-> ret]
    /\ call' = NoCall /\ frame' = NoFrame /\ ret' = NoRet
    /\ UNCHANGED <<self, wk>>

Evaluate ==
    /\ ret.status = "none"
    /\ \E t \in TimeArrays, re \in ReSet, me \in MeSet, ve \in VeSet, kappa \in KappaSet :
          Luminosity(t, re, me, ve, kappa) /\ UNCHANGED <<prev, wk>>

EvaluatePair ==
    /\ ret.status = "none"
    /\ \E t \in PairTimeArrays, re \in PairReSet, me \in PairMeSet, ve \in PairVeSet,
         kappa \in PairKappaSet :
          Luminosity(t, re, me, ve, kappa) /\ UNCHANGED <<prev, wk>>

Next == Evaluate \/ Discard
Spec == Init /\ [][Next]_vars

NextPair == EvaluatePair \/ Keep
SpecPair == Init /\ [][NextPair]_vars

-----------------------------------------------------------------------------
(* Concurrent calls: each worker runs luminosity on the shared object one  *)
(* source line at a time; its arguments and locals are its own frame.      *)

\* the locals M, k, fp and vs kept on the object: the frames of all workers
\* see worker w's values
StoreShared(w, f) ==
    [u \in Workers |->
        IF u = w THEN [wk[u] EXCEPT !.loc = f]
        ELSE [wk[u] EXCEPT !.loc = [@ EXCEPT !.M = f.M, !.k = f.k, !.fp = f.fp,
                                               !.vs = f.vs]]]

\* the frame of worker w becomes f
StoreLocals(w, f) == [wk EXCEPT ![w].loc = f]

\* worker w executes the line at, which leaves its frame as f, and moves on
\* to the line next, unless the line raised
Step(w, at, f, next) ==
    /\ wk[w].pc = at
    /\ wk' = [StoreLocals(w, f) EXCEPT
                ![w].pc = IF f.raised THEN "raised" ELSE next,
                ![w].ret = IF f.raised THEN Outcome(f) ELSE @]
    /\ UNCHANGED <<self, call, frame, ret, prev>>

\* worker w calls self.luminosity(*c)
Enter(w, c) ==
    /\ wk[w].pc = "idle"
    /\ wk' = [wk EXCEPT ![w] =
                [pc |-> "l45",
                 call |-> [t |-> c[1], re |-> c[2], me |-> c[3], ve |-> c[4],
                           kappa |-> c[5]],
                 loc |-> Frame0(c[1], c[2], c[3], c[4], c[5]), ret |-> NoRet]]
    /\ UNCHANGED <<self, call, frame, ret, prev>>

W45(w) == Step(w, "l45", Exec45(wk[w].loc, self.mcore), "l46")
W46(w) == Step(w, "l46", Exec46(wk[w].loc), "l47")
W47(w) == Step(w, "l47", Exec47(wk[w].loc, self.mcore), "l48")
W48(w) == Step(w, "l48", Exec48(wk[w].loc), "l52")
W52(w) == Step(w, "l52", Exec52(wk[w].loc), "l53")
W53(w) == Step(w, "l53", Exec53(wk[w].loc), "l55")
W55(w) == Step(w, "l55", Exec55(wk[w].loc), "l56")
W56(w) == Step(w, "l56", Exec56(wk[w].loc), "l57")
W57(w) == Step(w, "l57", Exec57(wk[w].loc), "l58")
W58(w) == Step(w, "l58", Exec58(wk[w].loc), "l60")
W60(w) == Step(w, "l60", Exec60(wk[w].loc), "l61")
W61(w) == Step(w, "l61", Exec61(wk[w].loc), "l63")
W63(w) == Step(w, "l63", Exec63(wk[w].loc), "l65")
W65(w) == Step(w, "l65", Exec65(wk[w].loc), "l67")

\* return np.array([R]), np.array([T])
W67(w) ==
    /\ wk[w].pc = "l67"
    /\ wk' = [wk EXCEPT ![w].pc = "done", ![w].ret = Outcome(wk[w].loc)]
    /\ UNCHANGED <<self, call, frame, ret, prev>>

\* the worker's caller takes the outcome; the frame is gone
Leave(w) ==
    /\ wk[w].pc \in {"done", "raised"}
    /\ wk' = [wk EXCEPT ![w] = IdleWorker]
    /\ UNCHANGED <<self, call, frame, ret, prev>>

\* the next line of worker w
WorkerStep(w) ==
    \/ W45(w) \/ W46(w) \/ W47(w) \/ W48(w) \/ W52(w) \/ W53(w) \/ W55(w)
    \/ W56(w) \/ W57(w) \/ W58(w) \/ W60(w) \/ W61(w) \/ W63(w) \/ W65(w)
    \/ W67(w)

NextConc ==
    \E w \in Workers :
        \/ \E c \in WorkerCalls : Enter(w, c)
        \/ WorkerStep(w)
        \/ Leave(w)
SpecConc == Init /\ [][NextConc]_vars

-----------------------------------------------------------------------------
(* Properties *)

NonPositive(x) == x.k = "zero" \/ IsNegative(x)
\* a finite, strictly positive double
PosFinite(x) == x.k = "fin" /\ x.s = 1
\* a call has finished (returned or raised) and its outcome is still held
Finished == ret.status # "none"
Returned == ret.status = "returned"
\* the opacity the finished call ran with
CallKappa == BindKappa(call.kappa)
\* re, me, ve, kappa and mcore of the finished call are all strictly positive
PositiveParams ==
    /\ PosFinite(call.re) /\ PosFinite(call.me) /\ PosFinite(call.ve)
    /\ PosFinite(CallKappa) /\ PosFinite(self.mcore)
PositiveTimes == \A i \in 1..Len(call.t) : PosFinite(call.t[i])

\* C1: a call in which any of re, me, ve or kappa is non-positive ends in an
\* error raised from that call; it never returns a pair to the caller.
C1_NonPositiveRaises ==
    (Finished /\ (NonPositive(call.re) \/ NonPositive(call.me)
                    \/ NonPositive(call.ve) \/ NonPositive(CallKappa)))
        => ret.status = "raised"

\* a and b are the same double up to one unit of rounding
Close(a, b) ==
    \/ a = b
    \/ a.k = "fin" /\ b.k = "fin" /\ a.s = b.s /\ Abs(a.l - b.l) <= 1

\* C2: for every valid input (t > 0, all parameters and mcore positive) the
\* returned R and T satisfy 4 pi R^2 sigma T^4 = L elementwise, up to
\* rounding, L being the luminosity computed inside the same call.
C2_StefanBoltzmann ==
    (Returned /\ PositiveParams /\ PositiveTimes) =>
        \A i \in 1..Len(call.t) :
            Close(Mul(Mul(Mul(c4pi, NpPow(ret.R[1][i], 2, 1)), sigma),
                      NpPow(ret.T[1][i], 4, 1)),
                  frame.L[i])
C2_Witness ==
    /\ Returned /\ PositiveParams /\ PositiveTimes
    /\ Len(call.t) = 2 /\ call.t[1] # call.t[2]
    /\ PosFinite(frame.L[1]) /\ PosFinite(ret.R[1][2])

\* C3: every step, whether a call that returns, a call that raises or the
\* caller dropping the outcome, leaves every attribute of the model as the
\* constructor left it, and creates no attribute.
C3_FixedState == [][self' = self /\ self = Constructed(self.mcore)]_vars
C3_Witness ==
    /\ ret.status = "raised" /\ Len(call.t) > 0
    /\ self = Constructed(self.mcore)

\* C4: initial, lower_bounds and upper_bounds have 4 entries each, one per
\* parameter of the order [re, me, ve, off] (the keys of units), and
\* lower_bounds[i] <= initial[i] <= upper_bounds[i] for every i.
C4_BoundsOrdered ==
    /\ Len(self.initial) = 4 /\ Len(self.lower_bounds) = 4
    /\ Len(self.upper_bounds) = 4 /\ Len(ParamOrder) = 4
    /\ {ParamOrder[i] : i \in 1..4} = DOMAIN self.units
    /\ \A i \in 1..4 : /\ Leq(self.lower_bounds[i], self.initial[i])
                       /\ Leq(self.initial[i], self.upper_bounds[i])
C4_Witness ==
    /\ Returned
    /\ Less(self.lower_bounds[4], self.initial[4])
    /\ Less(self.initial[4], self.upper_bounds[4])
    /\ self.initial[2] = Lit(5, -1)

\* C5 as stated: each of re, me, ve, kappa is a key of both units and scale,
\* and units and scale have the same key set.
C5_EveryParamHasEntry ==
    Finished =>
        /\ LuminosityParams \subseteq DOMAIN self.units
        /\ LuminosityParams \subseteq DOMAIN self.scale
        /\ DOMAIN self.units = DOMAIN self.scale

\* C5 amended: units and scale have the same key set {re, me, ve, off}; of
\* the per-call parameters of luminosity, re, me and ve are keys of both and
\* kappa is a key of neither.
C5_FitParamsHaveEntry ==
    /\ DOMAIN self.units = {"re", "me", "ve", "off"}
    /\ DOMAIN self.scale = DOMAIN self.units
    /\ LuminosityParams \cap DOMAIN self.units = {"re", "me", "ve"}
    /\ "kappa" \notin DOMAIN self.units \cup DOMAIN self.scale
    /\ \A p \in DOMAIN self.scale : PosFinite(self.scale[p])
C5_Witness ==
    /\ Returned /\ call.kappa # Omitted
    /\ "kappa" \notin DOMAIN self.units

\* the finished call and the call before it both returned, with the same t,
\* re, me and ve
SameButKappa ==
    /\ Returned /\ prev.ret.status = "returned"
    /\ call.t = prev.call.t /\ call.re = prev.call.re
    /\ call.me = prev.call.me /\ call.ve = prev.call.ve

\* C6: a call with kappa omitted returns the same (R, T) as the call with
\* kappa = 0.34 and the same t, re, me, ve, for every mcore; in both calls
\* the normalized opacity k is 1.
C6_DefaultKappa ==
    /\ (SameButKappa /\ {call.kappa, prev.call.kappa} = {Omitted, Lit(34, -2)})
          => /\ ret = prev.ret
             /\ frame.k = One /\ prev.frame.k = One
    /\ (Returned /\ call.kappa \in {Omitted, Lit(34, -2)}) => frame.k = One
C6_Witness ==
    /\ SameButKappa
    /\ call.kappa = Omitted /\ prev.call.kappa = Lit(34, -2)
    /\ PosFinite(ret.R[1][1]) /\ ret = prev.ret

\* (num / den) ** 0.8 of element i of a call with locals f: the argument of
\* the exponential suppression term
Suppression(f, i) == NpPow(NpDiv(f.num[i], f.den), 8, 10)
\* 0.914 / 0.4: below it the derivative of ln L in ln k,
\* -0.914 + 0.4 (num / den) ** 0.8, is negative
TurnOver == Lit(2285, -3)

InBox ==
    /\ Leq(self.lower_bounds[1], call.re) /\ Leq(call.re, self.upper_bounds[1])
    /\ Leq(self.lower_bounds[2], call.me) /\ Leq(call.me, self.upper_bounds[2])
    /\ Leq(self.lower_bounds[3], call.ve) /\ Leq(call.ve, self.upper_bounds[3])
    /\ Leq(Lit(34, -3), CallKappa) /\ Leq(CallKappa, Lit(34, -1))
    /\ Leq(Lit(1, -1), self.mcore) /\ Leq(self.mcore, Lit(1, 2))
\* every time of the finished call lies in [0.001, 100] days
EarlyTimes ==
    \A i \in 1..Len(call.t) : Leq(Lit(1, -3), call.t[i]) /\ Leq(call.t[i], Lit(1, 2))

\* C8 as stated: with re, me, ve, kappa, mcore and every element of t
\* strictly positive, every element of R and of T is finite and strictly
\* positive.
C8_PositiveFinite ==
    (Finished /\ PositiveParams /\ PositiveTimes) =>
        /\ Returned
        /\ \A i \in 1..Len(call.t) : PosFinite(ret.R[1][i]) /\ PosFinite(ret.T[1][i])

\* C8 amended: the same for re, me, ve inside [lower_bounds, upper_bounds],
\* kappa in [0.034, 3.4], mcore in [0.1, 100] and every element of t in
\* [0.001, 100]; for every positive input of the grid T is finite and
\* strictly positive and R is finite and not negative.
C8_PositiveFiniteInBox ==
    /\ (Finished /\ InBox /\ EarlyTimes) =>
          /\ Returned
          /\ \A i \in 1..Len(call.t) :
                PosFinite(ret.R[1][i]) /\ PosFinite(ret.T[1][i])
    /\ (Finished /\ PositiveParams /\ PositiveTimes) =>
          /\ Returned
          /\ \A i \in 1..Len(call.t) :
                /\ PosFinite(ret.T[1][i])
                /\ PosFinite(ret.R[1][i]) \/ ret.R[1][i] = Zero
C8_Witness ==
    /\ Returned /\ self.mcore = Lit(1, 0)
    /\ call.t = <<Lit(1, 0)>> /\ call.re = self.initial[1]
    /\ call.me = self.initial[2] /\ call.ve = self.initial[3]
    /\ CallKappa = Lit(34, -2)
    /\ PosFinite(ret.R[1][1]) /\ PosFinite(ret.T[1][1])

\* the outcome of the call worker w made, run alone on the same object
Alone(w) ==
    Outcome(Locals(self.mcore, wk[w].call.t, wk[w].call.re, wk[w].call.me,
                   wk[w].call.ve, BindKappa(wk[w].call.kappa)))

\* C9: whatever the interleaving, each worker's call ends with the outcome
\* it has when run alone, and no call changes the object.  (The steps of a
\* worker are guarded by its own position only: the body takes no lock.)
C9_Isolation ==
    /\ self = Constructed(self.mcore)
    /\ \A w \in Workers :
          wk[w].pc \in {"done", "raised"} => wk[w].ret = Alone(w)
C9_Witness ==
    /\ wk[1].pc = "done" /\ wk[2].pc = "l58"
    /\ wk[1].call # wk[2].call
    /\ wk[1].ret = Alone(1) /\ PosFinite(wk[1].ret.R[1][1])

\* C10: a call with positive parameters and a time array containing 0
\* returns (it does not raise) a pair of rows as long as t; the elements at
\* t = 0 are not finite (NaN or infinite), and the elements at t > 0 are
\* those of the call on that time alone.
C10_ZeroTime ==
    (Finished /\ PositiveParams /\ (\E i \in 1..Len(call.t) : call.t[i] = Zero)) =>
        /\ Returned
        /\ Len(ret.R) = 1 /\ Len(ret.T) = 1
        /\ Len(ret.R[1]) = Len(call.t) /\ Len(ret.T[1]) = Len(call.t)
        /\ \A i \in 1..Len(call.t) :
              LET alone == Outcome(Locals(self.mcore, <<call.t[i]>>, call.re,
                                          call.me, call.ve, CallKappa))
              IN  IF call.t[i] = Zero
                  THEN /\ ret.R[1][i].k \in {"nan", "inf"}
                       /\ ret.T[1][i].k \in {"nan", "inf"}
                  ELSE /\ ret.R[1][i] = alone.R[1][1]
                       /\ ret.T[1][i] = alone.T[1][1]
C10_Witness ==
    /\ Returned /\ PositiveParams /\ Len(call.t) = 2
    /\ call.t[1] = Zero /\ PosFinite(call.t[2])
    /\ ret.T[1][1] = NaN /\ PosFinite(ret.T[1][2]) /\ PosFinite(ret.R[1][2])

====
